---- MODULE Spec2Model ----
(***************************************************************************)
(* Model of the zisiny scheduling core: the working-day calendar           *)
(* (src/utils/dateUtils.ts) and the hour-accumulation allocator            *)
(* calculateSchedule (src/utils/scheduler.ts).                             *)
(*                                                                         *)
(* A Date is modelled by its timestamp, counted in ticks; TicksPerDay      *)
(* ticks make one calendar day and day 0 is a Thursday (as 1970-01-01).    *)
(* Hours are integers.  One behaviour of Spec is one call of               *)
(* calculateSchedule on arguments chosen by Init.                          *)
(***************************************************************************)
EXTENDS Integers, Sequences, FiniteSets, TLC

(* ---------------------------- bounds ---------------------------------- *)
TicksPerDay == 2
MaxTasks == 3
MaxEffort == 2
MaxHours == 2
MaxBlockedTasks == 2
MaxInvalidTasks == 1
MaxHolidays == 2

(* ------------------------ program constants --------------------------- *)
MAX_ITERATIONS == 365

\* the documented example: Tuesday 2024-01-02 as a day number, 8 hours a day
DocStartDay == 19724
DocHoursPerDay == 8

(* ------------------------- date-fns helpers --------------------------- *)
dayOf(date) == date \div TicksPerDay

startOfDay(date) == date - (date % TicksPerDay)

addDays(date, amount) == date + amount * TicksPerDay

isSameDay(dateLeft, dateRight) == startOfDay(dateLeft) = startOfDay(dateRight)

getDay(date) == (4 + dayOf(date)) % 7

isSaturday(date) == getDay(date) = 6

isSunday(date) == getDay(date) = 0

(* --------------------------- dateUtils.ts ----------------------------- *)
\* mutant: only Sunday counts as weekend
isWeekend_sundayOnly(date) == isSunday(date)

isWeekend(date) == isSaturday(date) \/ isSunday(date)

\* holidays.some(holiday => isSameDay(date, holiday)): some instant of the
\* day of date is listed
isHoliday(date, holidays) ==
    \E holiday \in startOfDay(date) .. (addDays(startOfDay(date), 1) - 1) :
        holiday \in holidays /\ isSameDay(date, holiday)

\* mutant: only the first entry of the array is compared
isHolidayOfArray_firstOnly(date, holidays) ==
    Len(holidays) > 0 /\ isSameDay(date, holidays[1])

\* line 8 read on the array itself: holidays.some(...) visits the entries in
\* order, duplicates included
isHolidayOfArray(date, holidays) ==
    \E i \in 1 .. Len(holidays) : isSameDay(date, holidays[i])

\* mutant: the holiday list is not consulted
isWorkingDay_withoutHolidays(date, holidays, includeWeekends) ==
    ~(~includeWeekends /\ isWeekend(date))

\* mutant: with includeWeekends a weekend day is worked whatever the holidays
isWorkingDay_weekendFirst(date, holidays, includeWeekends) ==
    IF isWeekend(date) THEN includeWeekends
    ELSE ~isHoliday(date, holidays)

\* mutant: the listed days are worked in addition to the others
isWorkingDay_holidaysWorked(date, holidays, includeWeekends) ==
    \/ isHoliday(date, holidays)
    \/ includeWeekends \/ ~isWeekend(date)

isWorkingDay(date, holidays, includeWeekends) ==
    IF ~includeWeekends /\ isWeekend(date) THEN FALSE
    ELSE IF isHoliday(date, holidays) THEN FALSE
    ELSE TRUE

\* the value standing for the Error thrown by getNextWorkingDay
NoWorkingDay == -1

\* mutant: the search gives up one iteration later
searchExhausted_oneLate(iterations) == iterations > MAX_ITERATIONS

\* mutant: the search has no limit
searchExhausted_never(iterations) == FALSE

searchExhausted(iterations) == iterations >= MAX_ITERATIONS

\* mutant: the loop body moves two days ahead
nextWorkingDayStep_twoDays(s, holidays, includeWeekends) ==
    IF isWorkingDay(s.nextDate, holidays, includeWeekends)
      THEN [s EXCEPT !.status = "returned"]
    ELSE IF searchExhausted(s.iterations + 1)
      THEN [s EXCEPT !.status = "thrown", !.iterations = s.iterations + 1]
    ELSE [s EXCEPT !.nextDate = addDays(s.nextDate, 2),
                   !.iterations = s.iterations + 1]

\* one evaluation of the while condition of getNextWorkingDay and, when it
\* holds, one run of the loop body
nextWorkingDayStep(s, holidays, includeWeekends) ==
    IF isWorkingDay(s.nextDate, holidays, includeWeekends)
      THEN [s EXCEPT !.status = "returned"]
    ELSE IF searchExhausted(s.iterations + 1)
      THEN [s EXCEPT !.status = "thrown", !.iterations = s.iterations + 1]
    ELSE [s EXCEPT !.nextDate = addDays(s.nextDate, 1),
                   !.iterations = s.iterations + 1]

\* n steps of the loop from the state from, stopping at the return or the
\* throw; the state of the loop is bound once as s, so that it is computed a
\* single time however often a step reads it
RECURSIVE nextWorkingDayLoop(_, _, _, _)
nextWorkingDayLoop(n, from, holidays, includeWeekends) ==
    CHOOSE final \in
        { IF s.status # "running" \/ n = 0 THEN s
          ELSE IF n = 1 THEN nextWorkingDayStep(s, holidays, includeWeekends)
          ELSE nextWorkingDayLoop(n - (n \div 2),
                   nextWorkingDayLoop(n \div 2, s, holidays, includeWeekends),
                   holidays, includeWeekends)
          : s \in {from} } : TRUE

\* mutant: the search starts on the date itself
getNextWorkingDay_fromDateItself(date, holidays, includeWeekends) ==
    LET final == nextWorkingDayLoop(MAX_ITERATIONS + 2,
                     [nextDate |-> date, iterations |-> 0,
                      status |-> "running"],
                     holidays, includeWeekends)
    IN IF final.status = "returned" THEN final.nextDate ELSE NoWorkingDay

\* the loop leaves within MAX_ITERATIONS + 2 evaluations of its condition
getNextWorkingDay(date, holidays, includeWeekends) ==
    LET final == nextWorkingDayLoop(MAX_ITERATIONS + 2,
                     [nextDate |-> addDays(date, 1), iterations |-> 0,
                      status |-> "running"],
                     holidays, includeWeekends)
    IN IF final.status = "returned" THEN final.nextDate ELSE NoWorkingDay

(* ---------- getNextWorkingDay as in the snapshot part_000 ------------- *)
\* line 32 of the snapshot: if (iterations > MAX_ITERATIONS) throw
snapshotSearchExhausted(iterations) == iterations > MAX_ITERATIONS

\* lines 30-38 of the snapshot
snapshotNextWorkingDayStep(s, holidays, includeWeekends) ==
    IF isWorkingDay(s.nextDate, holidays, includeWeekends)
      THEN [s EXCEPT !.status = "returned"]
    ELSE IF snapshotSearchExhausted(s.iterations + 1)
      THEN [s EXCEPT !.status = "thrown", !.iterations = s.iterations + 1]
    ELSE [s EXCEPT !.nextDate = addDays(s.nextDate, 1),
                   !.iterations = s.iterations + 1]

RECURSIVE snapshotNextWorkingDayLoop(_, _, _, _)
snapshotNextWorkingDayLoop(n, from, holidays, includeWeekends) ==
    CHOOSE final \in
        { IF s.status # "running" \/ n = 0 THEN s
          ELSE IF n = 1
            THEN snapshotNextWorkingDayStep(s, holidays, includeWeekends)
          ELSE snapshotNextWorkingDayLoop(n - (n \div 2),
                   snapshotNextWorkingDayLoop(n \div 2, s, holidays,
                                              includeWeekends),
                   holidays, includeWeekends)
          : s \in {from} } : TRUE

\* lines 21-41 of the snapshot; its loop leaves within MAX_ITERATIONS + 3
\* evaluations of the condition
snapshotGetNextWorkingDay(date, holidays, includeWeekends) ==
    LET final == snapshotNextWorkingDayLoop(MAX_ITERATIONS + 3,
                     [nextDate |-> addDays(date, 1), iterations |-> 0,
                      status |-> "running"],
                     holidays, includeWeekends)
    IN IF final.status = "returned" THEN final.nextDate ELSE NoWorkingDay

(* ------------------------ JavaScript values --------------------------- *)
\* a raw cell value of the 'Esfuerzo' column
NumberValue(n) == [type |-> "number", v |-> n]
TextValue == [type |-> "text", v |-> 0]
Undefined == [type |-> "undefined", v |-> 0]

\* Number(x): a number or NaN
ToNumber(x) ==
    IF x.type = "number" THEN [nan |-> FALSE, v |-> x.v]
    ELSE [nan |-> TRUE, v |-> 0]

\* n || 0 : NaN and 0 are falsy
OrZero(n) == IF n.nan \/ n.v = 0 THEN 0 ELSE n.v

effortOf(task) == OrZero(ToNumber(task.Esfuerzo))

\* a value passed as projectStartDate
ValidDate(t) == [isDate |-> TRUE, nan |-> FALSE, time |-> t]
InvalidDate == [isDate |-> TRUE, nan |-> TRUE, time |-> 0]
NotADate == [isDate |-> FALSE, nan |-> FALSE, time |-> 0]

(* ------------------------------ inputs -------------------------------- *)
\* day 1 is a Friday, day 2 a Saturday, day 4 a Monday: a Friday with a time
\* of day, a Saturday at midnight, and the two values that are no date
StartDates ==
    { ValidDate(1 * TicksPerDay + 1), ValidDate(2 * TicksPerDay),
      InvalidDate, NotADate }

\* holidays that can be combined freely: the Saturday (entered with a time
\* of day) and the following Monday
HolidayWindow == { 2 * TicksPerDay + 1, 4 * TicksPerDay }

\* every day from first to last, as midnight timestamps
DayBlock(first, last) == { d * TicksPerDay : d \in first .. last }

\* calendars blocked for a whole year: from the Friday on, and from the
\* Saturday on
BlockedCalendars ==
    { DayBlock(1, 1 + MAX_ITERATIONS + 1), DayBlock(2, 2 + MAX_ITERATIONS) }

HolidayLists == (SUBSET HolidayWindow) \cup BlockedCalendars

\* cells: a negative number, zero, the smallest and the largest effort, a
\* text and a missing value
EffortValues ==
    { NumberValue(n) : n \in {-1, 0, 1, MaxEffort} } \cup { TextValue, Undefined }

\* two rejected values and the two largest of the accepted ones
HourValues == { -1, 0, MaxHours - 1, MaxHours }

\* task lists over the cells of values: row i carries its row number and
\* possibly stale dates
TaskListsOver(values) ==
    UNION { { [i \in 1 .. n |->
                 [rowNum |-> i, Esfuerzo |-> e[i],
                  FechaInicio |-> NoWorkingDay, FechaFin |-> NoWorkingDay]]
              : e \in [1 .. n -> values] } : n \in 0 .. MaxTasks }

TaskLists == TaskListsOver(EffortValues)

\* the efforts of the documented examples and scenarios
DocEfforts == { NumberValue(n) : n \in {4, 8, 12, 24, 80} }

\* the configurations of the documented examples: from Tuesday 2024-01-02,
\* weekdays only, without holidays or with Wednesday 2024-01-03 as holiday
DocConfigs ==
    [ projectStartDate : { ValidDate(DocStartDay * TicksPerDay) },
      holidays : { {}, { (DocStartDay + 1) * TicksPerDay } },
      includeWeekends : { FALSE },
      workHoursPerDay : { DocHoursPerDay } ]

(* ------------------------------ state --------------------------------- *)
VARIABLES
    tasks,            \* argument: the task list
    config,           \* argument: the SchedulerConfig
    pc,               \* position inside calculateSchedule
    currentDate,      \* let currentDate
    hoursUsedToday,   \* let hoursUsedToday
    index,            \* position of tasks.map (1-based)
    taskStartDate,    \* const taskStartDate of the task being processed
    remainingEffort,  \* let remainingEffort of the task being processed
    mapped,           \* the array tasks.map is building
    result,           \* the returned array, <<>> before the return
    error,            \* the thrown error, "none" while nothing was thrown
    billed,           \* history: one entry per evaluation of hoursToBill
    calendarCall,     \* arguments of a direct call of a dateUtils function
    calendarResult    \* what that call gave

schedulerVars == << tasks, config, pc, currentDate, hoursUsedToday, index,
                    taskStartDate, remainingEffort, mapped, result, error,
                    billed >>

calendarVars == << calendarCall, calendarResult >>

vars == << schedulerVars, calendarVars >>

\* no dateUtils function has been called directly
NoCall == [fn |-> "none", flag |-> FALSE, date |-> 0]

Min(a, b) == IF a <= b THEN a ELSE b

\* the rejected configurations and the year-long calendars are combined
\* with the shorter task lists only
SmallInputs ==
    /\ tasks \in TaskLists
    /\ config \in [ projectStartDate : StartDates,
                    holidays : HolidayLists,
                    includeWeekends : BOOLEAN,
                    workHoursPerDay : HourValues ]
    /\ config.holidays \in BlockedCalendars => Len(tasks) <= MaxBlockedTasks
    /\ (config.workHoursPerDay <= 0
           \/ config.projectStartDate \in {InvalidDate, NotADate})
       => Len(tasks) <= MaxInvalidTasks

\* the documented examples with their real dates and hours
DocumentedInputs ==
    /\ tasks \in TaskListsOver(DocEfforts)
    /\ config \in DocConfigs

Init ==
    /\ SmallInputs \/ DocumentedInputs
    /\ pc = "validateHours"
    /\ currentDate = 0
    /\ hoursUsedToday = 0
    /\ index = 1
    /\ taskStartDate = 0
    /\ remainingEffort = 0
    /\ mapped = << >>
    /\ result = << >>
    /\ error = "none"
    /\ billed = << >>
    /\ calendarCall = NoCall
    /\ calendarResult = NoCall

(* --------------------------- scheduler.ts ----------------------------- *)
\* mutant: zero hours per day are accepted
invalidWorkHours_acceptsZero(workHoursPerDay) == workHoursPerDay < 0

\* line 24
invalidWorkHours(workHoursPerDay) == workHoursPerDay <= 0

\* mutant: only the instanceof test, an Invalid Date is accepted
invalidStartDate_instanceOnly(projectStartDate) == ~projectStartDate.isDate

\* line 29
invalidStartDate(projectStartDate) ==
    ~projectStartDate.isDate \/ projectStartDate.nan

\* mutant: a day counts as full as soon as it is used at all
dayIsFull_onceUsed(used, workHoursPerDay) == used > 0

\* lines 62 and 77
dayIsFull(used, workHoursPerDay) == used >= workHoursPerDay

\* mutant: the remaining effort is billed without the cap of the day
hoursToBill_uncapped(remaining, availableHours) == remaining

\* line 68
\* mutant: a task is billed all the hours left of the day
hoursToBill_wholeDay(remaining, availableHours) == availableHours

hoursToBill(remaining, availableHours) == Min(remaining, availableHours)

\* mutant: the two dates are exchanged
withDates_exchanged(task, start, end) ==
    [task EXCEPT !.FechaInicio = end, !.FechaFin = start]

\* mutant: the output carries the normalised effort instead of the cell
withDates_normalised(task, start, end) ==
    [task EXCEPT !.Esfuerzo = NumberValue(effortOf(task)),
                 !.FechaInicio = start, !.FechaFin = end]

\* { ...task, 'Fecha Inicio': start, 'Fecha Fin': end }
withDates(task, start, end) ==
    [task EXCEPT !.FechaInicio = start, !.FechaFin = end]

\* mutant: a non-working start date is left for the next calendar day
initialCursor_nextCalendarDay(cfg) ==
    LET start == startOfDay(cfg.projectStartDate.time)
    IN IF isWorkingDay(start, cfg.holidays, cfg.includeWeekends)
         THEN [currentDate |-> start, hoursUsedToday |-> 0, failed |-> FALSE]
         ELSE [currentDate |-> addDays(start, 1), hoursUsedToday |-> 0,
               failed |-> FALSE]

\* lines 33-40: the cursor before the first task; failed when
\* getNextWorkingDay threw
initialCursor(cfg) ==
    LET start == startOfDay(cfg.projectStartDate.time)
        next == getNextWorkingDay(start, cfg.holidays, cfg.includeWeekends)
    IN IF isWorkingDay(start, cfg.holidays, cfg.includeWeekends)
         THEN [currentDate |-> start, hoursUsedToday |-> 0, failed |-> FALSE]
         ELSE [currentDate |-> next, hoursUsedToday |-> 0,
               failed |-> next = NoWorkingDay]

\* mutant: a failed search is swallowed and the same day is used again
rollIfFull_swallowsFailure(c, cfg) ==
    LET next == getNextWorkingDay(c.currentDate, cfg.holidays,
                                  cfg.includeWeekends)
    IN IF ~dayIsFull(c.hoursUsedToday, cfg.workHoursPerDay) THEN c
       ELSE IF next = NoWorkingDay THEN [c EXCEPT !.hoursUsedToday = 0]
       ELSE [c EXCEPT !.currentDate = next, !.hoursUsedToday = 0]

\* lines 62-65 and 77-80: leave a full day
rollIfFull(c, cfg) ==
    LET next == getNextWorkingDay(c.currentDate, cfg.holidays,
                                  cfg.includeWeekends)
    IN IF ~dayIsFull(c.hoursUsedToday, cfg.workHoursPerDay) THEN c
       ELSE IF next = NoWorkingDay THEN [c EXCEPT !.failed = TRUE]
       ELSE [c EXCEPT !.currentDate = next, !.hoursUsedToday = 0]

\* mutant: a day that was billed to is closed, whatever is left of it
allocationStep_wholeDays(c, remaining, cfg) ==
    LET rolled == rollIfFull(c, cfg)
        availableHours == cfg.workHoursPerDay - rolled.hoursUsedToday
        bill == hoursToBill(remaining, availableHours)
    IN IF rolled.failed
         THEN [cursor |-> rolled, remainingEffort |-> remaining, bill |-> 0]
         ELSE [cursor |-> [rolled EXCEPT !.hoursUsedToday = cfg.workHoursPerDay],
               remainingEffort |-> remaining - bill, bill |-> bill]

\* lines 61-71: one iteration of the allocation loop on the cursor c and the
\* remaining effort
allocationStep(c, remaining, cfg) ==
    LET rolled == rollIfFull(c, cfg)
        availableHours == cfg.workHoursPerDay - rolled.hoursUsedToday
        bill == hoursToBill(remaining, availableHours)
    IN IF rolled.failed
         THEN [cursor |-> rolled, remainingEffort |-> remaining, bill |-> 0]
         ELSE [cursor |-> [rolled EXCEPT !.hoursUsedToday = @ + bill],
               remainingEffort |-> remaining - bill, bill |-> bill]

\* lines 60-72: the whole loop
RECURSIVE allocationLoop(_, _, _)
allocationLoop(c, remaining, cfg) ==
    IF c.failed \/ ~(remaining > 0) THEN c
    ELSE LET s == allocationStep(c, remaining, cfg)
         IN allocationLoop(s.cursor, s.remainingEffort, cfg)

\* mutant: a task without effort takes a day of its own
emptyTask_takesTheDay(c, task, cfg) ==
    [cursor |-> [c EXCEPT !.hoursUsedToday = cfg.workHoursPerDay],
     task |-> withDates(task, c.currentDate, c.currentDate)]

\* lines 47-53: a task without positive effort
emptyTask(c, task, cfg) ==
    [cursor |-> c, task |-> withDates(task, c.currentDate, c.currentDate)]

\* lines 42-87: the callback of tasks.map on one task, from the cursor c
scheduleTask(c, task, cfg) ==
    IF effortOf(task) <= 0 THEN emptyTask(c, task, cfg)
    ELSE LET atEnd == allocationLoop(c, effortOf(task), cfg)
         IN [cursor |-> IF atEnd.failed THEN atEnd ELSE rollIfFull(atEnd, cfg),
             task |-> withDates(task, c.currentDate, atEnd.currentDate)]

\* tasks.map over the tasks from position i on
RECURSIVE mapTasks(_, _, _, _, _)
mapTasks(c, list, i, cfg, done) ==
    IF c.failed THEN [error |-> "noWorkingDay", result |-> << >>]
    ELSE IF i > Len(list) THEN [error |-> "none", result |-> done]
    ELSE LET s == scheduleTask(c, list[i], cfg)
         IN mapTasks(s.cursor, list, i + 1, cfg, Append(done, s.task))

\* lines 20-88: the outcome of a call, the thrown error or the returned list
calculateSchedule(list, cfg) ==
    IF invalidWorkHours(cfg.workHoursPerDay)
      THEN [error |-> "workHours", result |-> << >>]
    ELSE IF invalidStartDate(cfg.projectStartDate)
      THEN [error |-> "startDate", result |-> << >>]
    ELSE mapTasks(initialCursor(cfg), list, 1, cfg, << >>)

(* ------- calculateSchedule without the roll of lines 76-80 ------------ *)
\* mutant: the start date is taken after the roll at the loop entry
scheduleTaskDeferred_startAfterRoll(c, task, cfg) ==
    IF effortOf(task) <= 0 THEN emptyTask(c, task, cfg)
    ELSE LET atEnd == allocationLoop(c, effortOf(task), cfg)
         IN [cursor |-> atEnd,
             task |-> withDates(task, rollIfFull(c, cfg).currentDate,
                                atEnd.currentDate)]

\* lines 42-87 without lines 76-80: a full day is left only at the loop
\* entry of a later task (lines 61-65), after line 56 took the start date
scheduleTaskDeferred(c, task, cfg) ==
    IF effortOf(task) <= 0 THEN emptyTask(c, task, cfg)
    ELSE LET atEnd == allocationLoop(c, effortOf(task), cfg)
         IN [cursor |-> atEnd,
             task |-> withDates(task, c.currentDate, atEnd.currentDate)]

RECURSIVE mapTasksDeferred(_, _, _, _, _)
mapTasksDeferred(c, list, i, cfg, done) ==
    IF c.failed THEN [error |-> "noWorkingDay", result |-> << >>]
    ELSE IF i > Len(list) THEN [error |-> "none", result |-> done]
    ELSE LET s == scheduleTaskDeferred(c, list[i], cfg)
         IN mapTasksDeferred(s.cursor, list, i + 1, cfg, Append(done, s.task))

calculateScheduleDeferred(list, cfg) ==
    IF invalidWorkHours(cfg.workHoursPerDay)
      THEN [error |-> "workHours", result |-> << >>]
    ELSE IF invalidStartDate(cfg.projectStartDate)
      THEN [error |-> "startDate", result |-> << >>]
    ELSE mapTasksDeferred(initialCursor(cfg), list, 1, cfg, << >>)

(* ----------------- calculateSchedule, statement by statement ---------- *)
cursor == [currentDate |-> currentDate, hoursUsedToday |-> hoursUsedToday,
           failed |-> FALSE]

Throw(e) ==
    /\ pc' = "thrown"
    /\ error' = e

\* mutant: the cursor is initialised before the configuration is validated
ValidateWorkHours_afterCursor ==
    /\ pc = "validateHours"
    /\ UNCHANGED calendarVars
    /\ IF ~invalidStartDate(config.projectStartDate)
            /\ initialCursor(config).failed
         THEN Throw("noWorkingDay")
         ELSE IF invalidWorkHours(config.workHoursPerDay)
         THEN Throw("workHours")
         ELSE pc' = "validateDate" /\ UNCHANGED error
    /\ UNCHANGED << tasks, config, currentDate, hoursUsedToday, index,
                    taskStartDate, remainingEffort, mapped, result, billed >>

\* lines 23-26
ValidateWorkHours ==
    /\ pc = "validateHours"
    /\ UNCHANGED calendarVars
    /\ IF invalidWorkHours(config.workHoursPerDay)
         THEN Throw("workHours")
         ELSE pc' = "validateDate" /\ UNCHANGED error
    /\ UNCHANGED << tasks, config, currentDate, hoursUsedToday, index,
                    taskStartDate, remainingEffort, mapped, result, billed >>

\* lines 28-31
ValidateStartDate ==
    /\ pc = "validateDate"
    /\ UNCHANGED calendarVars
    /\ IF invalidStartDate(config.projectStartDate)
         THEN Throw("startDate")
         ELSE pc' = "init" /\ UNCHANGED error
    /\ UNCHANGED << tasks, config, currentDate, hoursUsedToday, index,
                    taskStartDate, remainingEffort, mapped, result, billed >>

\* mutant: the first day starts with its hours counted as used
InitCursor_dayUsed ==
    /\ pc = "init"
    /\ UNCHANGED calendarVars
    /\ LET c == initialCursor(config)
       IN IF c.failed
            THEN Throw("noWorkingDay") /\ UNCHANGED currentDate
            ELSE /\ currentDate' = c.currentDate
                 /\ pc' = "map"
                 /\ UNCHANGED error
    /\ hoursUsedToday' = config.workHoursPerDay
    /\ UNCHANGED << tasks, config, index, taskStartDate, remainingEffort,
                    mapped, result, billed >>

\* lines 33-40
InitCursor ==
    /\ pc = "init"
    /\ UNCHANGED calendarVars
    /\ LET c == initialCursor(config)
       IN IF c.failed
            THEN Throw("noWorkingDay") /\ UNCHANGED currentDate
            ELSE /\ currentDate' = c.currentDate
                 /\ pc' = "map"
                 /\ UNCHANGED error
    /\ hoursUsedToday' = 0
    /\ UNCHANGED << tasks, config, index, taskStartDate, remainingEffort,
                    mapped, result, billed >>

\* lines 45-53: a task without positive effort
EmitEmptyTask ==
    /\ pc = "map"
    /\ UNCHANGED calendarVars
    /\ index <= Len(tasks)
    /\ effortOf(tasks[index]) <= 0
    /\ LET s == emptyTask(cursor, tasks[index], config)
       IN /\ mapped' = Append(mapped, s.task)
          /\ currentDate' = s.cursor.currentDate
          /\ hoursUsedToday' = s.cursor.hoursUsedToday
    /\ index' = index + 1
    /\ UNCHANGED << tasks, config, pc, taskStartDate, remainingEffort,
                    result, error, billed >>

\* lines 45-58: a task with positive effort enters the allocation loop
BeginTask ==
    /\ pc = "map"
    /\ UNCHANGED calendarVars
    /\ index <= Len(tasks)
    /\ effortOf(tasks[index]) > 0
    /\ taskStartDate' = currentDate
    /\ remainingEffort' = effortOf(tasks[index])
    /\ pc' = "loop"
    /\ UNCHANGED << tasks, config, currentDate, hoursUsedToday, index,
                    mapped, result, error, billed >>

\* mutant: the iteration bills to the current day without leaving a full one
AllocateHours_withoutRoll ==
    /\ pc = "loop"
    /\ UNCHANGED calendarVars
    /\ remainingEffort > 0
    /\ LET availableHours == config.workHoursPerDay - hoursUsedToday
           bill == hoursToBill(remainingEffort, availableHours)
       IN /\ hoursUsedToday' = hoursUsedToday + bill
          /\ remainingEffort' = remainingEffort - bill
          /\ billed' = Append(billed, [task |-> index, date |-> currentDate,
                                       hours |-> bill])
    /\ UNCHANGED << tasks, config, pc, currentDate, index, taskStartDate,
                    mapped, result, error >>

\* mutant: the end dates already emitted share the Date object of the
\* cursor and move with it
AllocateHours_aliasedCursor ==
    /\ pc = "loop"
    /\ UNCHANGED calendarVars
    /\ remainingEffort > 0
    /\ LET s == allocationStep(cursor, remainingEffort, config)
       IN IF s.cursor.failed
            THEN /\ Throw("noWorkingDay")
                 /\ UNCHANGED << currentDate, hoursUsedToday,
                                 remainingEffort, billed, mapped >>
            ELSE /\ currentDate' = s.cursor.currentDate
                 /\ hoursUsedToday' = s.cursor.hoursUsedToday
                 /\ remainingEffort' = s.remainingEffort
                 /\ billed' = Append(billed,
                                     [task |-> index,
                                      date |-> s.cursor.currentDate,
                                      hours |-> s.bill])
                 /\ mapped' = [ j \in DOMAIN mapped |->
                                  IF mapped[j].FechaFin = currentDate
                                    THEN [mapped[j] EXCEPT
                                            !.FechaFin = s.cursor.currentDate]
                                    ELSE mapped[j] ]
                 /\ UNCHANGED << pc, error >>
    /\ UNCHANGED << tasks, config, index, taskStartDate, result >>

\* lines 60-72: one iteration of the allocation loop
AllocateHours ==
    /\ pc = "loop"
    /\ UNCHANGED calendarVars
    /\ remainingEffort > 0
    /\ LET s == allocationStep(cursor, remainingEffort, config)
       IN IF s.cursor.failed
            THEN /\ Throw("noWorkingDay")
                 /\ UNCHANGED << currentDate, hoursUsedToday,
                                 remainingEffort, billed >>
            ELSE /\ currentDate' = s.cursor.currentDate
                 /\ hoursUsedToday' = s.cursor.hoursUsedToday
                 /\ remainingEffort' = s.remainingEffort
                 /\ billed' = Append(billed,
                                     [task |-> index,
                                      date |-> s.cursor.currentDate,
                                      hours |-> s.bill])
                 /\ UNCHANGED << pc, error >>
    /\ UNCHANGED << tasks, config, index, taskStartDate, mapped, result >>

\* mutant: the roll of a full day is left to the next task's loop
FinishTask_deferredRoll ==
    /\ pc = "loop"
    /\ UNCHANGED calendarVars
    /\ ~(remainingEffort > 0)
    /\ mapped' = Append(mapped, withDates(tasks[index], taskStartDate,
                                          currentDate))
    /\ index' = index + 1
    /\ pc' = "map"
    /\ UNCHANGED << tasks, config, currentDate, hoursUsedToday, taskStartDate,
                    remainingEffort, result, error, billed >>

\* mutant: after the last task a full day is not left
FinishTask_lastTaskStays ==
    /\ pc = "loop"
    /\ UNCHANGED calendarVars
    /\ ~(remainingEffort > 0)
    /\ LET taskEndDate == currentDate
           c == IF index = Len(tasks) THEN cursor ELSE rollIfFull(cursor, config)
       IN IF c.failed
            THEN /\ Throw("noWorkingDay")
                 /\ UNCHANGED << currentDate, hoursUsedToday, mapped, index >>
            ELSE /\ currentDate' = c.currentDate
                 /\ hoursUsedToday' = c.hoursUsedToday
                 /\ mapped' = Append(mapped, withDates(tasks[index],
                                                       taskStartDate, taskEndDate))
                 /\ index' = index + 1
                 /\ pc' = "map"
                 /\ UNCHANGED error
    /\ UNCHANGED << tasks, config, taskStartDate, remainingEffort, result,
                    billed >>

\* lines 74-86: the loop is over; end date, roll of a full day, emit
FinishTask ==
    /\ pc = "loop"
    /\ UNCHANGED calendarVars
    /\ ~(remainingEffort > 0)
    /\ LET taskEndDate == currentDate
           c == rollIfFull(cursor, config)
       IN IF c.failed
            THEN /\ Throw("noWorkingDay")
                 /\ UNCHANGED << currentDate, hoursUsedToday, mapped, index >>
            ELSE /\ currentDate' = c.currentDate
                 /\ hoursUsedToday' = c.hoursUsedToday
                 /\ mapped' = Append(mapped, withDates(tasks[index],
                                                       taskStartDate, taskEndDate))
                 /\ index' = index + 1
                 /\ pc' = "map"
                 /\ UNCHANGED error
    /\ UNCHANGED << tasks, config, taskStartDate, remainingEffort, result,
                    billed >>

\* line 42: tasks.map has visited every task; its array is returned
Return ==
    /\ pc = "map"
    /\ UNCHANGED calendarVars
    /\ index > Len(tasks)
    /\ result' = mapped
    /\ pc' = "returned"
    /\ UNCHANGED << tasks, config, currentDate, hoursUsedToday, index,
                    taskStartDate, remainingEffort, mapped, error, billed >>

Next ==
    \/ ValidateWorkHours
    \/ ValidateStartDate
    \/ InitCursor
    \/ EmitEmptyTask
    \/ BeginTask
    \/ AllocateHours
    \/ FinishTask
    \/ Return

Spec == Init /\ [][Next]_vars

\* the calls followed to their end: accepted configurations on the open and
\* the blocked calendars with short task lists, and the documented run of
\* effort 80
TerminationInputs ==
    \/ /\ tasks \in TaskListsOver({ NumberValue(n) : n \in {0, 1, MaxEffort} })
       /\ Len(tasks) <= MaxBlockedTasks
       /\ config \in [ projectStartDate : StartDates \ {InvalidDate, NotADate},
                       holidays : {{}, HolidayWindow} \cup BlockedCalendars,
                       includeWeekends : BOOLEAN,
                       workHoursPerDay : {MaxHours - 1, MaxHours} ]
    \/ /\ tasks \in TaskListsOver({ NumberValue(80) })
       /\ Len(tasks) <= 1
       /\ config \in DocConfigs

TerminationInit ==
    /\ TerminationInputs
    /\ pc = "validateHours"
    /\ currentDate = 0
    /\ hoursUsedToday = 0
    /\ index = 1
    /\ taskStartDate = 0
    /\ remainingEffort = 0
    /\ mapped = << >>
    /\ result = << >>
    /\ error = "none"
    /\ billed = << >>
    /\ calendarCall = NoCall
    /\ calendarResult = NoCall

\* calculateSchedule runs to completion once called: no step of it waits
SpecTermination == TerminationInit /\ [][Next]_vars /\ WF_vars(Next)

\* calls on calendars with one long gap: from the Friday of StartDates, the
\* 364, 365 or 366 days after it are holidays and the days after the gap
\* are open
GapLengths == {MAX_ITERATIONS - 1, MAX_ITERATIONS, MAX_ITERATIONS + 1}

GapCalendars == { DayBlock(2, 1 + n) : n \in GapLengths }

GapInputs ==
    /\ tasks \in TaskListsOver({ NumberValue(n) : n \in {0, 1, MaxEffort} })
    /\ Len(tasks) <= MaxBlockedTasks
    /\ config \in [ projectStartDate : { ValidDate(1 * TicksPerDay + 1) },
                    holidays : GapCalendars,
                    includeWeekends : BOOLEAN,
                    workHoursPerDay : {MaxHours - 1, MaxHours} ]

GapInit ==
    /\ GapInputs
    /\ pc = "validateHours"
    /\ currentDate = 0
    /\ hoursUsedToday = 0
    /\ index = 1
    /\ taskStartDate = 0
    /\ remainingEffort = 0
    /\ mapped = << >>
    /\ result = << >>
    /\ error = "none"
    /\ billed = << >>
    /\ calendarCall = NoCall
    /\ calendarResult = NoCall

SpecGap == GapInit /\ [][Next]_vars

(* ----------------------- SchedulerApp.tsx ----------------------------- *)
\* the text of the hours-per-day field: a number, a text that Number() turns
\* into NaN, or blanks only
BlankText == [type |-> "blank", v |-> 0]

\* lines 369-380: workHoursError is not the empty string
workHoursError(workHours) ==
    \/ workHours.type = "blank"
    \/ ToNumber(workHours).nan
    \/ ToNumber(workHours).v < 1 \/ ToNumber(workHours).v > 24

\* line 381: null, or the number of hours
safeWorkHours(workHours) ==
    IF workHoursError(workHours) THEN [isNull |-> TRUE, v |-> 0]
    ELSE [isNull |-> FALSE, v |-> ToNumber(workHours).v]

\* lines 361-364: null, or the parsed date
parsedStartDate(startDate) ==
    IF startDate.nan THEN [isNull |-> TRUE, date |-> startDate]
    ELSE [isNull |-> FALSE, date |-> startDate]

\* line 410: the condition under which processedTasks is [] without a call
scheduleGuard(list, form) ==
    \/ Len(list) = 0
    \/ parsedStartDate(form.projectStartDate).isNull
    \/ safeWorkHours(form.workHoursPerDay).isNull

\* the form: the parsed start date and holidays, the weekend switch and the
\* text of the hours field, with the tasks read from the sheet
AppInputs ==
    /\ tasks \in TaskListsOver({ NumberValue(n) : n \in {0, 1, MaxEffort} })
    /\ Len(tasks) <= MaxBlockedTasks
    /\ config \in
          [ projectStartDate :
                { ValidDate(1 * TicksPerDay), ValidDate(2 * TicksPerDay),
                  InvalidDate },
            holidays : { {}, DayBlock(2, 2 + MAX_ITERATIONS) },
            includeWeekends : BOOLEAN,
            workHoursPerDay :
                { NumberValue(n) : n \in {0, 1, MaxHours, 24, 25} }
                  \cup { TextValue, BlankText } ]

AppInit ==
    /\ AppInputs
    /\ pc = "appRender"
    /\ currentDate = 0
    /\ hoursUsedToday = 0
    /\ index = 1
    /\ taskStartDate = 0
    /\ remainingEffort = 0
    /\ mapped = << >>
    /\ result = << >>
    /\ error = "none"
    /\ billed = << >>
    /\ calendarCall = NoCall
    /\ calendarResult = NoCall

\* mutant: what was scheduled before the error is kept
AppCatch_keepsPartial ==
    /\ pc = "thrown"
    /\ result' = mapped
    /\ pc' = "appReady"
    /\ UNCHANGED << tasks, config, currentDate, hoursUsedToday, index,
                    taskStartDate, remainingEffort, mapped, error, billed,
                    calendarVars >>

\* lines 409-420: processedTasks is [] at once, or the configuration is
\* built and calculateSchedule is called
AppComputeSchedule ==
    /\ pc = "appRender"
    /\ IF scheduleGuard(tasks, config)
         THEN pc' = "appReady" /\ UNCHANGED config
         ELSE /\ config' = [config EXCEPT
                   !.workHoursPerDay = safeWorkHours(config.workHoursPerDay).v]
              /\ pc' = "validateHours"
    /\ UNCHANGED << tasks, currentDate, hoursUsedToday, index, taskStartDate,
                    remainingEffort, mapped, result, error, billed,
                    calendarVars >>

\* line 422: processedTasks is what calculateSchedule returned
AppReturnSchedule ==
    /\ pc = "returned"
    /\ pc' = "appReady"
    /\ UNCHANGED << tasks, config, currentDate, hoursUsedToday, index,
                    taskStartDate, remainingEffort, mapped, result, error,
                    billed, calendarVars >>

\* lines 423-426: the error is logged and processedTasks is []
AppCatch ==
    /\ pc = "thrown"
    /\ result' = << >>
    /\ pc' = "appReady"
    /\ UNCHANGED << tasks, config, currentDate, hoursUsedToday, index,
                    taskStartDate, remainingEffort, mapped, error, billed,
                    calendarVars >>

\* lines 430-433: the export handler returns at once without processed
\* tasks or without the workbook, else it goes on to write
AppExport ==
    /\ pc = "appReady"
    /\ \E workbookLoaded \in BOOLEAN :
           IF Len(result) = 0 \/ ~workbookLoaded
             THEN pc' = "exportReturned"
             ELSE pc' = "exportWriting"
    /\ UNCHANGED << tasks, config, currentDate, hoursUsedToday, index,
                    taskStartDate, remainingEffort, mapped, result, error,
                    billed, calendarVars >>

AppNext ==
    \/ AppComputeSchedule
    \/ Next
    \/ AppReturnSchedule
    \/ AppCatch
    \/ AppExport

SpecApp == AppInit /\ [][AppNext]_vars

(* ------------------ dateUtils functions called directly --------------- *)
\* dates of a Thursday, a Friday and a Saturday, at every time of day
CalendarDates == 0 .. 3 * TicksPerDay - 1

\* holiday entries on the Friday and the Saturday, at every time of day
CalendarHolidays == TicksPerDay .. 3 * TicksPerDay - 1

\* arrays of holidays, in any order and with repetitions
HolidayArrays ==
    UNION { [1 .. n -> CalendarHolidays] : n \in 0 .. MaxHolidays }

\* lengths of a run of holidays that starts on the day after the date
BlockLengths ==
    { 0, MAX_ITERATIONS - 1, MAX_ITERATIONS, MAX_ITERATIONS + 1 }

Elements(array) == { array[i] : i \in 1 .. Len(array) }

CalendarInit ==
    /\ \E date \in CalendarDates, array \in HolidayArrays,
          length \in BlockLengths, includeWeekends \in BOOLEAN :
           calendarCall =
               [ date |-> date,
                 array |-> array,
                 holidays |-> Elements(array)
                     \cup DayBlock(dayOf(date) + 1, dayOf(date) + length),
                 includeWeekends |-> includeWeekends ]
    /\ calendarResult = NoCall
    /\ tasks = << >>
    /\ config = [ projectStartDate |-> NotADate, holidays |-> {},
                  includeWeekends |-> FALSE, workHoursPerDay |-> 0 ]
    /\ pc = "idle"
    /\ currentDate = 0
    /\ hoursUsedToday = 0
    /\ index = 1
    /\ taskStartDate = 0
    /\ remainingEffort = 0
    /\ mapped = << >>
    /\ result = << >>
    /\ error = "none"
    /\ billed = << >>

\* isHoliday(date, array)
CallIsHoliday ==
    /\ calendarResult = NoCall
    /\ calendarResult' =
           [ fn |-> "isHoliday",
             flag |-> isHolidayOfArray(calendarCall.date, calendarCall.array),
             date |-> 0 ]
    /\ UNCHANGED << calendarCall, schedulerVars >>

\* isWorkingDay(date, holidays, includeWeekends)
CallIsWorkingDay ==
    /\ calendarResult = NoCall
    /\ calendarResult' =
           [ fn |-> "isWorkingDay",
             flag |-> isWorkingDay(calendarCall.date, calendarCall.holidays,
                                   calendarCall.includeWeekends),
             date |-> 0 ]
    /\ UNCHANGED << calendarCall, schedulerVars >>

\* getNextWorkingDay(date, holidays, includeWeekends); flag tells that it
\* threw
CallGetNextWorkingDay ==
    /\ calendarResult = NoCall
    /\ LET next == getNextWorkingDay(calendarCall.date, calendarCall.holidays,
                                     calendarCall.includeWeekends)
       IN calendarResult' =
              [ fn |-> "getNextWorkingDay",
                flag |-> next = NoWorkingDay,
                date |-> next ]
    /\ UNCHANGED << calendarCall, schedulerVars >>

CalendarNext ==
    \/ CallIsHoliday
    \/ CallIsWorkingDay
    \/ CallGetNextWorkingDay

SpecCalendar == CalendarInit /\ [][CalendarNext]_vars

\* the same call handed to the getNextWorkingDay of the snapshot part_000,
\* after the one of dateUtils.ts has answered
CallSnapshotGetNextWorkingDay ==
    /\ calendarResult.fn = "getNextWorkingDay"
    /\ LET next == snapshotGetNextWorkingDay(calendarCall.date,
                                             calendarCall.holidays,
                                             calendarCall.includeWeekends)
       IN calendarResult' =
              [ fn |-> "snapshotGetNextWorkingDay",
                flag |-> next = NoWorkingDay,
                date |-> next ]
    /\ UNCHANGED << calendarCall, schedulerVars >>

SnapshotsNext ==
    \/ CallGetNextWorkingDay
    \/ CallSnapshotGetNextWorkingDay

SpecSnapshots == CalendarInit /\ [][SnapshotsNext]_vars

(* ----------------------------- outcome -------------------------------- *)
Returned == pc = "returned"

Thrown == pc = "thrown"

\* the outcome of the run, once it is over
Outcome == [error |-> error, result |-> result]

\* the run and the function calculateSchedule describe the same call
RunMatchesFunction ==
    (Returned \/ Thrown) => Outcome = calculateSchedule(tasks, config)

(* ------------------- vocabulary of the properties -------------------- *)
\* the calendar in the words of the configuration, without dateUtils
ListedHoliday(date) ==
    \E t \in 0 .. TicksPerDay - 1 : dayOf(date) * TicksPerDay + t \in config.holidays

WeekendDay(date) == (4 + dayOf(date)) % 7 \in {0, 6}

WorkingDate(date) ==
    /\ ~ListedHoliday(date)
    /\ config.includeWeekends \/ ~WeekendDay(date)

\* date is the first working day strictly after the day of from
FirstWorkingDateAfter(date, from) ==
    /\ date = dayOf(date) * TicksPerDay
    /\ dayOf(date) > dayOf(from)
    /\ WorkingDate(date)
    /\ \A d \in dayOf(from) + 1 .. dayOf(date) - 1 : ~WorkingDate(d * TicksPerDay)

Start(i) == result[i].FechaInicio

End(i) == result[i].FechaFin

Effort(i) == effortOf(tasks[i])

RECURSIVE SumHours(_)
SumHours(entries) ==
    IF entries = << >> THEN 0
    ELSE Head(entries).hours + SumHours(Tail(entries))

\* the hours the allocation loop billed to task i on the day of date
BilledTo(i, date) ==
    SumHours(SelectSeq(billed, LAMBDA b : b.task = i /\ dayOf(b.date) = dayOf(date)))

\* the hours billed on the day of date by the tasks up to task i
UsedBy(i, date) ==
    SumHours(SelectSeq(billed, LAMBDA b : b.task <= i /\ dayOf(b.date) = dayOf(date)))

\* all the hours billed to task i
BilledInAll(i) == SumHours(SelectSeq(billed, LAMBDA b : b.task = i))

(* ------------------------------ claims -------------------------------- *)
\* C1: in a successful run every output task's start and end date is a
\* working day of the configuration: not a listed holiday, and not a
\* Saturday or Sunday when includeWeekends is false.
C1_WorkingDayOutputs ==
    Returned =>
        \A i \in 1 .. Len(result) : WorkingDate(Start(i)) /\ WorkingDate(End(i))

\* a successful run whose first task had to leave a non-working start date
\* and whose last task ends past a skipped holiday or weekend
C1_Witness ==
    /\ Returned
    /\ Len(result) >= 2
    /\ ~WorkingDate(config.projectStartDate.time)
    /\ \E d \in dayOf(Start(1)) .. dayOf(End(Len(result))) :
           ~WorkingDate(d * TicksPerDay)

\* C2: in a successful run the dates follow the task list: start(i) <= end(i)
\* for every task, and end(i) <= start(j) for all i < j.
C2_OrderedDates ==
    Returned =>
        /\ \A i \in 1 .. Len(result) : Start(i) <= End(i)
        /\ \A i, j \in 1 .. Len(result) : i < j => End(i) <= Start(j)

\* a successful run with a task that spans several days and a later task
\* that starts after it
C2_Witness ==
    /\ Returned
    /\ \E i, j \in 1 .. Len(result) :
           i < j /\ Start(i) < End(i) /\ End(i) < Start(j)

\* C3: hour accumulation.  When the day on which task i ended still has
\* unused hours once task i is scheduled, the next task with positive effort
\* starts on that same date, also when only a part of it fits in that day.
C3_HourAccumulation ==
    Returned =>
        \A i, j \in 1 .. Len(result) :
            ( /\ i < j
              /\ Effort(j) > 0
              /\ \A k \in i + 1 .. j - 1 : Effort(k) <= 0
              /\ UsedBy(i, End(i)) < config.workHoursPerDay )
            => Start(j) = End(i)

\* a task shares the day a positive task left partly used and spills over to
\* a later day
C3_Witness ==
    /\ Returned
    /\ \E i \in 1 .. Len(result) - 1 :
           /\ Effort(i) > 0
           /\ UsedBy(i, End(i)) < config.workHoursPerDay
           /\ Effort(i + 1) > config.workHoursPerDay - UsedBy(i, End(i))
           /\ Start(i + 1) = End(i)
           /\ End(i + 1) > Start(i + 1)

\* C4: when the hours of a task bring its last day to exactly
\* workHoursPerDay, the next task of the list, whatever its effort, starts on
\* the first working day strictly after that task's end date.
C4_FullDayRollsOver ==
    Returned =>
        \A i \in 1 .. Len(result) - 1 :
            (Effort(i) > 0 /\ UsedBy(i, End(i)) = config.workHoursPerDay)
            => FirstWorkingDateAfter(Start(i + 1), End(i))

\* a task without effort follows a task that filled its day, and its start
\* date lies beyond a skipped run of non-working days
C4_Witness ==
    /\ Returned
    /\ \E i \in 1 .. Len(result) - 1 :
           /\ Effort(i) > 0
           /\ UsedBy(i, End(i)) = config.workHoursPerDay
           /\ Effort(i + 1) <= 0
           /\ dayOf(Start(i + 1)) > dayOf(End(i)) + 2

\* C5: capacity conservation.  For every task with positive effort the hours
\* billed over the days from its start date to its end date sum to its
\* effort, and no single day is billed more than workHoursPerDay.
C5_CapacityConservation ==
    Returned =>
        \A i \in 1 .. Len(result) :
            Effort(i) > 0 =>
                /\ BilledInAll(i) = Effort(i)
                /\ \A n \in 1 .. Len(billed) :
                       billed[n].task = i =>
                           /\ Start(i) <= billed[n].date
                           /\ billed[n].date <= End(i)
                           /\ BilledTo(i, billed[n].date) <= config.workHoursPerDay

\* a task billed on its start date, which it shares with the task before
\* it, and on a later date beyond a skipped non-working day
C5_Witness ==
    /\ Returned
    /\ \E i \in 2 .. Len(result) :
           /\ Effort(i) > 0
           /\ BilledTo(i, Start(i)) > 0
           /\ BilledTo(i - 1, Start(i)) > 0
           /\ BilledTo(i, End(i)) > 0
           /\ \E d \in dayOf(Start(i)) + 1 .. dayOf(End(i)) - 1 :
                  ~WorkingDate(d * TicksPerDay)

\* the raw cell of task i is 0, negative, missing or not numeric
EmptyCell(i) ==
    \/ tasks[i].Esfuerzo.type \in {"undefined", "text"}
    \/ tasks[i].Esfuerzo.type = "number" /\ tasks[i].Esfuerzo.v <= 0

RemoveAt(seq, i) == SubSeq(seq, 1, i - 1) \o SubSeq(seq, i + 1, Len(seq))

\* date is the first working day on or after the day of projectStartDate
FirstWorkingDateFrom(date) ==
    LET from == dayOf(config.projectStartDate.time)
    IN /\ date = dayOf(date) * TicksPerDay
       /\ dayOf(date) >= from
       /\ WorkingDate(date)
       /\ \A d \in from .. dayOf(date) - 1 : ~WorkingDate(d * TicksPerDay)

\* C6: a task whose effort is 0, negative, missing or not numeric gets the
\* cursor date as start and end date (for a first task the first working day
\* on or after projectStartDate), leaves currentDate and hoursUsedToday
\* unchanged, and the outcome for the other tasks is the one of the list
\* without that task.
C6_EmptyTaskFrame ==
    /\ [][ (pc = "map" /\ index <= Len(tasks) /\ EmptyCell(index))
           => /\ currentDate' = currentDate
              /\ hoursUsedToday' = hoursUsedToday
              /\ Len(mapped') = index
              /\ mapped'[index].FechaInicio = currentDate
              /\ mapped'[index].FechaFin = currentDate
              /\ index = 1 => FirstWorkingDateFrom(currentDate) ]_vars
    /\ [] ( (Returned \/ Thrown) =>
              \A i \in 1 .. Len(tasks) :
                  EmptyCell(i) =>
                      calculateSchedule(RemoveAt(tasks, i), config)
                        = [error |-> error,
                           result |-> IF Returned THEN RemoveAt(result, i)
                                      ELSE << >>] )

\* a task without effort sits between two tasks with effort on a day that is
\* partly used, and the task after it starts on that same day
C6_Witness ==
    /\ Returned
    /\ Len(result) = 3
    /\ Effort(1) > 0
    /\ EmptyCell(2)
    /\ Effort(3) > 0
    /\ UsedBy(1, End(1)) < config.workHoursPerDay
    /\ Start(2) = End(1)
    /\ Start(3) = End(1)

\* C7: order preservation.  A successful run returns as many tasks as it was
\* given, output i is built from input i, and every field other than the two
\* dates has the value it had in the input.
C7_OrderPreservation ==
    Returned =>
        /\ Len(result) = Len(tasks)
        /\ \A i \in 1 .. Len(tasks) :
               /\ DOMAIN result[i] = DOMAIN tasks[i]
               /\ \A f \in DOMAIN tasks[i] \ {"FechaInicio", "FechaFin"} :
                      result[i][f] = tasks[i][f]

\* a returned list of three tasks whose cells are a text, a missing value
\* and a number, each with new dates
C7_Witness ==
    /\ Returned
    /\ Len(result) = 3
    /\ \E i, j, k \in 1 .. 3 :
           /\ tasks[i].Esfuerzo.type = "text"
           /\ tasks[j].Esfuerzo.type = "undefined"
           /\ tasks[k].Esfuerzo.type = "number" /\ tasks[k].Esfuerzo.v > 1
    /\ \A i \in 1 .. 3 : result[i].FechaInicio # tasks[i].FechaInicio

\* C8: with workHoursPerDay zero or negative the call throws the work-hours
\* error, for any task list, and returns no schedule.
C8_WorkHoursRejected ==
    config.workHoursPerDay <= 0 =>
        /\ pc \in {"validateHours", "thrown"}
        /\ pc = "thrown" => error = "workHours"
        /\ result = << >>
        /\ mapped = << >>

\* the call has thrown on zero hours per day although the start date is
\* valid and there are tasks to schedule
C8_Witness ==
    /\ Thrown
    /\ config.workHoursPerDay = 0
    /\ config.projectStartDate \notin {InvalidDate, NotADate}
    /\ Len(tasks) > 0
    /\ error = "workHours"

\* C9: with positive workHoursPerDay and a projectStartDate that is not a
\* valid date the call throws the start-date error, for any task list, and
\* returns no schedule.
C9_StartDateRejected ==
    (config.workHoursPerDay > 0
        /\ config.projectStartDate \in {InvalidDate, NotADate}) =>
        /\ pc \in {"validateHours", "validateDate", "thrown"}
        /\ pc = "thrown" => error = "startDate"
        /\ result = << >>
        /\ mapped = << >>

\* the call has thrown on an Invalid Date with positive hours and tasks
C9_Witness ==
    /\ Thrown
    /\ config.workHoursPerDay > 0
    /\ config.projectStartDate = InvalidDate
    /\ Len(tasks) > 0
    /\ error = "startDate"

\* C10: the configuration is validated before the cursor is initialised and
\* before any task is processed: an invalid configuration never ends in the
\* no-working-day error, whatever the holidays.
C10_ValidationFirst ==
    (config.workHoursPerDay <= 0
        \/ config.projectStartDate \in {InvalidDate, NotADate}) =>
        /\ pc \in {"validateHours", "validateDate", "thrown"}
        /\ error \in {"none", "workHours", "startDate"}
        /\ pc = "thrown" => error # "none"
        /\ currentDate = 0 /\ hoursUsedToday = 0 /\ index = 1
        /\ mapped = << >> /\ billed = << >>

\* the call has thrown a validation error although the start date and the
\* whole year after it are holidays
C10_Witness ==
    /\ Thrown
    /\ config.workHoursPerDay <= 0
    /\ config.projectStartDate \notin {InvalidDate, NotADate}
    /\ \A d \in 0 .. MAX_ITERATIONS :
           ListedHoliday(addDays(config.projectStartDate.time, d))
    /\ Len(tasks) > 0

\* none of the 365 days after the day of from is a working day
YearBlockedAfter(from) ==
    \A k \in 1 .. 365 : ~WorkingDate((dayOf(from) + k) * TicksPerDay)

ValidConfig ==
    /\ config.workHoursPerDay > 0
    /\ config.projectStartDate \notin {InvalidDate, NotADate}

\* C11: when the search for the next working day fails, at the
\* initialisation, inside the allocation loop or in the roll after a task,
\* the call throws the no-working-day error and returns nothing, whatever
\* was dated before; with the start date and the 365 days after it all
\* holidays every run fails.
C11_FailurePropagates ==
    /\ [][ ( \/ /\ pc = "init"
                /\ ~WorkingDate(config.projectStartDate.time)
                /\ YearBlockedAfter(config.projectStartDate.time)
             \/ /\ pc = "loop"
                /\ hoursUsedToday >= config.workHoursPerDay
                /\ YearBlockedAfter(currentDate) )
           => /\ pc' = "thrown"
              /\ error' = "noWorkingDay"
              /\ result' = << >> ]_vars
    /\ [] (Thrown => result = << >>)
    /\ [] ( ( /\ ValidConfig
              /\ \A d \in 0 .. 365 :
                     ListedHoliday(addDays(config.projectStartDate.time, d)) )
            => /\ pc \in {"validateHours", "validateDate", "init", "thrown"}
               /\ Thrown => error = "noWorkingDay" )

\* the search failed inside the loop of a second task: the first task was
\* already dated, and nothing is returned
C11_Witness ==
    /\ Thrown
    /\ error = "noWorkingDay"
    /\ Len(mapped) >= 1
    /\ index = 2
    /\ remainingEffort > 0
    /\ result = << >>

\* date is where the first task has to start: the day of projectStartDate
\* when that is a working day, else the first working day after it
FirstTaskDate(date) ==
    IF WorkingDate(config.projectStartDate.time)
      THEN date = dayOf(config.projectStartDate.time) * TicksPerDay
      ELSE FirstWorkingDateAfter(date, config.projectStartDate.time)

\* C12: when projectStartDate is not a working day the first task starts on
\* the first working day strictly after it, on a fresh day; when it is a
\* working day the first task starts on projectStartDate itself.
C12_FirstTaskStart ==
    /\ (pc = "map" /\ index = 1) =>
           hoursUsedToday = 0 /\ FirstTaskDate(currentDate)
    /\ Len(mapped) >= 1 => FirstTaskDate(mapped[1].FechaInicio)
    /\ (Returned /\ Len(result) >= 1) => FirstTaskDate(Start(1))

\* the project starts on a Saturday that is not worked, the Monday is a
\* holiday, and the first task of the returned schedule starts on the Tuesday
C12_Witness ==
    /\ Returned
    /\ Len(result) >= 1
    /\ Effort(1) > 0
    /\ ~WorkingDate(config.projectStartDate.time)
    /\ dayOf(Start(1)) = dayOf(config.projectStartDate.time) + 3

(* --------------- vocabulary of the calendar properties --------------- *)
\* the day of date is listed in the holidays of the call
CallListed(date) ==
    \E t \in 0 .. TicksPerDay - 1 :
        dayOf(date) * TicksPerDay + t \in calendarCall.holidays

CallWorking(date) ==
    /\ ~CallListed(date)
    /\ calendarCall.includeWeekends \/ ~WeekendDay(date)

\* the date k days after the date of the call, at the same time of day
DaysAhead(k) == calendarCall.date + k * TicksPerDay

GaveNextWorkingDay ==
    calendarResult.fn = "getNextWorkingDay" /\ ~calendarResult.flag

\* C13: whenever getNextWorkingDay returns, the result lies a whole number
\* k >= 1 of days after date, also when date is a working day, it is a
\* working day, and none of the days between is.
C13_NextWorkingDay ==
    GaveNextWorkingDay =>
        LET k == dayOf(calendarResult.date) - dayOf(calendarCall.date)
        IN /\ k >= 1
           /\ calendarResult.date = DaysAhead(k)
           /\ CallWorking(calendarResult.date)
           /\ \A j \in 1 .. k - 1 : ~CallWorking(DaysAhead(j))

\* called on a working day, the search went over a holiday and a weekend
C13_Witness ==
    /\ GaveNextWorkingDay
    /\ CallWorking(calendarCall.date)
    /\ CallListed(DaysAhead(1))
    /\ ~calendarCall.includeWeekends
    /\ calendarResult.date = DaysAhead(4)

\* C14: getNextWorkingDay throws exactly when none of the 365 days after
\* date is a working day; a first working day up to 365 days ahead is
\* returned.
C14_SearchLimit ==
    calendarResult.fn = "getNextWorkingDay" =>
        /\ calendarResult.flag <=> \A k \in 1 .. 365 : ~CallWorking(DaysAhead(k))
        /\ ~calendarResult.flag =>
               /\ dayOf(calendarResult.date) - dayOf(calendarCall.date) <= 365
               /\ CallWorking(calendarResult.date)

\* after 364 holidays the working day exactly 365 days ahead is returned
C14_Witness ==
    /\ GaveNextWorkingDay
    /\ \A k \in 1 .. 364 : CallListed(DaysAhead(k))
    /\ calendarResult.date = DaysAhead(365)

\* C15: isWorkingDay is true exactly when the date is not a listed holiday
\* and, unless includeWeekends, neither a Saturday nor a Sunday; a holiday on
\* a weekend is not worked even with includeWeekends.
C15_WorkingDay ==
    calendarResult.fn = "isWorkingDay" =>
        calendarResult.flag =
            ( /\ ~CallListed(calendarCall.date)
              /\ calendarCall.includeWeekends \/ ~WeekendDay(calendarCall.date) )

\* a Saturday that is a holiday, asked with includeWeekends
C15_Witness ==
    /\ calendarResult.fn = "isWorkingDay"
    /\ calendarCall.includeWeekends
    /\ WeekendDay(calendarCall.date)
    /\ CallListed(calendarCall.date)
    /\ ~calendarResult.flag

\* the days that the entries of the array fall on
ListedDays == { dayOf(calendarCall.array[i]) : i \in 1 .. Len(calendarCall.array) }

\* C16: isHoliday is true exactly when an entry of the array falls on the
\* day of date: times of day, order and repetitions make no difference, an
\* empty array gives false.
C16_Holiday ==
    calendarResult.fn = "isHoliday" =>
        /\ calendarResult.flag = (dayOf(calendarCall.date) \in ListedDays)
        /\ calendarResult.flag =
               isHoliday(calendarCall.date, Elements(calendarCall.array))

\* the date matches the second entry only, at another time of day
C16_Witness ==
    /\ calendarResult.fn = "isHoliday"
    /\ calendarResult.flag
    /\ Len(calendarCall.array) = 2
    /\ dayOf(calendarCall.array[1]) # dayOf(calendarCall.date)
    /\ dayOf(calendarCall.array[2]) = dayOf(calendarCall.date)
    /\ calendarCall.array[2] # calendarCall.date

\* midnight of day d of January 2024; the documented start is 2024-01-02
January2024(d) == (DocStartDay + (d - 2)) * TicksPerDay

\* the run of the example table of the requirements: efforts 8, 12 and 24
\* from 2024-01-02 at 8 hours a day, weekdays only, no holidays
ExampleTableRun ==
    /\ Returned
    /\ config.projectStartDate = ValidDate(January2024(2))
    /\ config.workHoursPerDay = DocHoursPerDay
    /\ ~config.includeWeekends
    /\ config.holidays = {}
    /\ Len(tasks) = 3
    /\ << Effort(1), Effort(2), Effort(3) >> = << 8, 12, 24 >>

RECURSIVE PositiveEffortBefore(_)
PositiveEffortBefore(k) ==
    IF k <= 1 THEN 0
    ELSE PositiveEffortBefore(k - 1)
           + (IF Effort(k - 1) > 0 THEN Effort(k - 1) ELSE 0)

Ceiling(a, b) == (a + b - 1) \div b

\* the working days among the days first .. last
WorkingDaysIn(first, last) ==
    { d \in first .. last : WorkingDate(d * TicksPerDay) }

\* date is w[n], counting the working days on or after projectStartDate
\* from 0
NthWorkingDate(date, n) ==
    LET from == dayOf(config.projectStartDate.time)
    IN /\ date = dayOf(date) * TicksPerDay
       /\ dayOf(date) >= from
       /\ WorkingDate(date)
       /\ Cardinality(WorkingDaysIn(from, dayOf(date) - 1)) = n

\* C18: in a successful run a task with positive effort e starts on
\* w[floor(C/W)] and ends on w[ceil((C+e)/W) - 1], a task without effort
\* starts and ends on w[floor(C/W)]; a first task of effort e spans
\* ceil(e/W) working days, and effort 80 at 8 hours a day from 2024-01-02
\* ends on 2024-01-15.
C18_ClosedForm ==
    Returned =>
        LET W == config.workHoursPerDay
        IN /\ \A k \in 1 .. Len(result) :
                  LET C == PositiveEffortBefore(k)
                      e == Effort(k)
                  IN /\ NthWorkingDate(Start(k), C \div W)
                     /\ IF e > 0
                          THEN NthWorkingDate(End(k), Ceiling(C + e, W) - 1)
                          ELSE End(k) = Start(k)
           /\ (Len(result) >= 1 /\ Effort(1) > 0) =>
                  Cardinality(WorkingDaysIn(dayOf(Start(1)), dayOf(End(1))))
                      = Ceiling(Effort(1), W)
           /\ ( /\ Len(result) >= 1 /\ Effort(1) = 80
                /\ W = DocHoursPerDay
                /\ config.projectStartDate = ValidDate(January2024(2))
                /\ config.holidays = {} /\ ~config.includeWeekends ) =>
                  End(1) = January2024(15)

\* effort 80 has ended on 2024-01-15 after ten full days over two weekends,
\* and the next task took the day after
C18_Witness ==
    /\ Returned
    /\ config.holidays = {}
    /\ Len(result) >= 2
    /\ Effort(1) = 80
    /\ End(1) = January2024(15)
    /\ Effort(2) = 12
    /\ Start(2) = January2024(16)
    /\ End(2) = January2024(17)

\* two entries carry the same dates
SameDates(t, u) == t.FechaInicio = u.FechaInicio /\ t.FechaFin = u.FechaFin

\* the outcome of the variant without the roll of lines 76-80 on the
\* arguments of the run
Deferred == calculateScheduleDeferred(tasks, config)

\* the tasks before task i filled their last day to the hour
AfterFilledDay(i) ==
    /\ PositiveEffortBefore(i) > 0
    /\ PositiveEffortBefore(i) % config.workHoursPerDay = 0

\* C19 as stated: the variant gives every task the start and end date of
\* calculateSchedule.
C19_SameDates ==
    Returned =>
        LET deferred == Deferred
        IN /\ deferred.error = "none"
           /\ Len(deferred.result) = Len(result)
           /\ \A i \in 1 .. Len(result) : SameDates(deferred.result[i], result[i])

\* C19: when calculateSchedule returns, the variant without the roll of
\* lines 76-80 returns too, with the same end date for every task of
\* positive effort and the same dates for every task that does not follow
\* a day filled to the hour; a task that does starts in the variant on that
\* filled day, one working day earlier, and ends there too when it has no
\* effort.
C19_DeferredRoll ==
    Returned =>
        LET deferred == Deferred
        IN /\ deferred.error = "none"
           /\ Len(deferred.result) = Len(result)
           /\ \A i \in 1 .. Len(result) :
                  LET start == deferred.result[i].FechaInicio
                      end == deferred.result[i].FechaFin
                  IN /\ Effort(i) > 0 => end = End(i)
                     /\ ~AfterFilledDay(i) => start = Start(i) /\ end = End(i)
                     /\ AfterFilledDay(i) =>
                            /\ NthWorkingDate(start,
                                   PositiveEffortBefore(i)
                                       \div config.workHoursPerDay - 1)
                            /\ FirstWorkingDateAfter(Start(i), start)
                            /\ ~(Effort(i) > 0) => end = start

\* a task filled its day and the next one, with effort, starts a working day
\* earlier in the variant and ends on the same day
C19_Witness ==
    /\ Returned
    /\ \E i \in 2 .. Len(result) :
           LET deferred == Deferred
           IN /\ AfterFilledDay(i)
              /\ Effort(i) > 0
              /\ deferred.result[i].FechaInicio = End(i - 1)
              /\ deferred.result[i].FechaInicio < Start(i)
              /\ deferred.result[i].FechaFin = End(i)

\* an iteration of the allocation loop is about to run
InLoopIteration == pc = "loop" /\ remainingEffort > 0

\* C21: every iteration of the allocation loop either fails in
\* getNextWorkingDay or bills a positive number of hours, so remainingEffort
\* decreases and stays >= 0, and every call eventually returns or throws.
C21_LoopTerminates ==
    /\ [][ InLoopIteration =>
             \/ pc' = "thrown" /\ error' = "noWorkingDay"
             \/ /\ Len(billed') = Len(billed) + 1
                /\ billed'[Len(billed')].hours > 0
                /\ remainingEffort' = remainingEffort - billed'[Len(billed')].hours
                /\ remainingEffort' >= 0
                /\ hoursUsedToday' <= config.workHoursPerDay ]_vars
    /\ <>(Returned \/ Thrown)

\* a task went through three iterations, leaving full days, before the run
\* returned
C21_Witness ==
    /\ Returned
    /\ \E i \in 1 .. Len(tasks) :
           Len(SelectSeq(billed, LAMBDA b : b.task = i)) >= 3

\* C22: throughout a run 0 <= hoursUsedToday <= workHoursPerDay, and at
\* every task boundary, before the first task and after each emitted one,
\* hoursUsedToday < workHoursPerDay.
C22_HoursUsedRange ==
    /\ (ValidConfig /\ pc \notin {"validateHours", "validateDate"}) =>
           0 <= hoursUsedToday /\ hoursUsedToday <= config.workHoursPerDay
    /\ (pc = "map" \/ Returned) => hoursUsedToday < config.workHoursPerDay

\* a task has just filled its day to the hour and the cursor stands on a
\* later day with no hours used
C22_Witness ==
    /\ pc = "map"
    /\ Len(mapped) >= 1
    /\ UsedBy(Len(mapped), mapped[Len(mapped)].FechaFin) = config.workHoursPerDay
    /\ hoursUsedToday = 0
    /\ dayOf(currentDate) > dayOf(mapped[Len(mapped)].FechaFin)

\* all the hours billed on the day of date
UsedOn(date) == UsedBy(Len(tasks), date)

\* C23: after the initialisation the cursor leaves a day only when its
\* hours are used up, for the first working day after it; in a successful
\* run every working day strictly between the first start date and the
\* last end date carries exactly workHoursPerDay billed hours, no day
\* carries more, and no hours are billed to a non-working day.
C23_DaysFilledInOrder ==
    /\ [][ (pc \in {"map", "loop"} /\ currentDate' # currentDate) =>
              /\ hoursUsedToday >= config.workHoursPerDay
              /\ FirstWorkingDateAfter(currentDate', currentDate) ]_vars
    /\ [](Returned =>
            /\ \A i \in 1 .. Len(billed) :
                   /\ WorkingDate(billed[i].date)
                   /\ UsedOn(billed[i].date) <= config.workHoursPerDay
            /\ Len(result) >= 1 =>
                   \A d \in dayOf(Start(1)) + 1 .. dayOf(End(Len(result))) - 1 :
                       WorkingDate(d * TicksPerDay) =>
                           UsedOn(d * TicksPerDay) = config.workHoursPerDay)

\* a working day strictly inside the schedule was filled by two tasks
\* together
C23_Witness ==
    /\ Returned
    /\ Len(result) >= 2
    /\ \E d \in dayOf(Start(1)) + 1 .. dayOf(End(Len(result))) - 1 :
           \E i \in 1 .. Len(result) - 1 :
               /\ BilledTo(i, d * TicksPerDay) > 0
               /\ BilledTo(i + 1, d * TicksPerDay) > 0
               /\ UsedOn(d * TicksPerDay) = config.workHoursPerDay

\* the loop of a task is over and its last hour filled the day
EndedOnFullDay ==
    /\ pc = "loop"
    /\ ~(remainingEffort > 0)
    /\ hoursUsedToday >= config.workHoursPerDay

\* the last task of the list that has effort
LastWithEffort ==
    CHOOSE j \in 1 .. Len(tasks) :
        Effort(j) > 0 /\ \A k \in j + 1 .. Len(tasks) : ~(Effort(k) > 0)

\* C24: a task whose effort ends exactly at the end of a day makes
\* calculateSchedule search the next working day at once, the last task of
\* the list included; if the 365 days after its end date are all
\* non-working the run throws the no-working-day error and returns nothing,
\* with the dates of all tasks already computed.
C24_RollAfterLastTask ==
    /\ [][ EndedOnFullDay =>
             IF YearBlockedAfter(currentDate)
               THEN /\ pc' = "thrown"
                    /\ error' = "noWorkingDay"
                    /\ result' = << >>
                    /\ mapped' = mapped /\ Len(mapped) = index - 1
                    /\ WorkingDate(taskStartDate) /\ WorkingDate(currentDate)
               ELSE /\ pc' = "map"
                    /\ FirstWorkingDateAfter(currentDate', currentDate)
                    /\ hoursUsedToday' = 0
                    /\ mapped'[index].FechaFin = currentDate ]_vars
    /\ []( ( /\ Returned
             /\ PositiveEffortBefore(Len(tasks) + 1) > 0
             /\ PositiveEffortBefore(Len(tasks) + 1) % config.workHoursPerDay = 0 )
           => ~YearBlockedAfter(End(LastWithEffort)) )

\* the last of two tasks filled the only working day: the run threw with
\* the first task dated and the dates of the second one computed
C24_Witness ==
    /\ Thrown
    /\ error = "noWorkingDay"
    /\ Len(tasks) >= 2
    /\ index = Len(tasks)
    /\ Len(mapped) = Len(tasks) - 1
    /\ remainingEffort = 0
    /\ hoursUsedToday = config.workHoursPerDay
    /\ BilledTo(index, currentDate) > 0
    /\ result = << >>

\* what getNextWorkingDay gives for the cursor date of the run
NextFromCursor ==
    getNextWorkingDay(currentDate, config.holidays, config.includeWeekends)

\* a working day exists beyond the 365 days after date
WorkingDayBeyondYear(date) ==
    \E k \in 366 .. 368 : WorkingDate(addDays(date, k))

\* C25: getNextWorkingDay never returns a date more than 365 days after its
\* argument and fails when the 365 days after it are all non-working, also
\* with a working day further ahead; so no step of calculateSchedule moves
\* the cursor over more than 365 days, and a run that needs a day beyond
\* such a gap throws.
C25_GapLimit ==
    /\ []( pc \in {"map", "loop"} =>
             /\ NextFromCursor # NoWorkingDay =>
                    /\ dayOf(NextFromCursor) - dayOf(currentDate) <= 365
                    /\ dayOf(NextFromCursor) - dayOf(currentDate) >= 1
             /\ YearBlockedAfter(currentDate) => NextFromCursor = NoWorkingDay )
    /\ [][ currentDate' # currentDate /\ pc # "init" =>
               dayOf(currentDate') - dayOf(currentDate) <= 365 ]_vars
    /\ [][ ( /\ pc = "loop"
             /\ hoursUsedToday >= config.workHoursPerDay
             /\ YearBlockedAfter(currentDate)
             /\ WorkingDayBeyondYear(currentDate) )
           => pc' = "thrown" /\ error' = "noWorkingDay" ]_vars
    /\ []( Returned =>
             \A i \in 1 .. Len(billed) - 1 :
                 dayOf(billed[i + 1].date) - dayOf(billed[i].date) <= 365 )

\* the run needed the day after a gap of exactly 365 holidays and threw,
\* with a working day 366 days ahead
C25_Witness ==
    /\ Thrown
    /\ error = "noWorkingDay"
    /\ Len(billed) >= 1
    /\ YearBlockedAfter(currentDate)
    /\ WorkingDate(addDays(currentDate, 366))

\* C26 as stated: on every call the getNextWorkingDay of the snapshot
\* part_000 answers as the one of dateUtils.ts did: the same date, or both
\* throw.
C26_SnapshotsAgree ==
    [][ calendarResult'.fn = "snapshotGetNextWorkingDay" =>
          /\ calendarResult'.flag = calendarResult.flag
          /\ calendarResult'.date = calendarResult.date ]_vars

\* the two answers differ exactly when the 365 days after the date are
\* non-working and day 366 is a working day: dateUtils.ts throws, the
\* snapshot returns day 366
C26_Divergence ==
    [][ calendarResult'.fn = "snapshotGetNextWorkingDay" =>
          IF (\A k \in 1 .. 365 : ~CallWorking(DaysAhead(k)))
                /\ CallWorking(DaysAhead(366))
            THEN /\ calendarResult.flag
                 /\ ~calendarResult'.flag
                 /\ calendarResult'.date = DaysAhead(366)
            ELSE /\ calendarResult'.flag = calendarResult.flag
                 /\ calendarResult'.date = calendarResult.date ]_vars

\* the case of the 366-holiday test: the snapshot has returned the day
\* after 365 holidays
C26_Witness ==
    /\ calendarResult.fn = "snapshotGetNextWorkingDay"
    /\ ~calendarResult.flag
    /\ ~calendarCall.includeWeekends
    /\ \A k \in 1 .. 365 : CallListed(DaysAhead(k))
    /\ calendarResult.date = DaysAhead(366)

\* the list with task i replaced by two tasks of efforts a and Effort(i) - a
SplitTask(i, a) ==
    SubSeq(tasks, 1, i - 1)
      \o << [tasks[i] EXCEPT !.Esfuerzo = NumberValue(a)],
            [tasks[i] EXCEPT !.Esfuerzo = NumberValue(Effort(i) - a)] >>
      \o SubSeq(tasks, i + 1, Len(tasks))

\* where task i is split: after its first hour, before its last one, and
\* around the hour that fills the day it starts on; these are all the
\* splits of an effort up to 4
SplitPoints(i) ==
    LET fillsDay == IF config.workHoursPerDay > 0
                      THEN config.workHoursPerDay
                             - (PositiveEffortBefore(i) % config.workHoursPerDay)
                      ELSE 1
    IN { a \in {1, fillsDay - 1, fillsDay, fillsDay + 1, Effort(i) - 1} :
             a >= 1 /\ a <= Effort(i) - 1 }

\* the outcome of calculateSchedule on the split list
SplitOutcome(i, a) == calculateSchedule(SplitTask(i, a), config)

\* C27: replacing a task of effort a + b, a > 0 and b > 0, by two
\* consecutive tasks of efforts a and b keeps the outcome, success or the
\* same error, and the dates of every other task; the first part starts on
\* the start date of the task and the second part ends on its end date.
C27_SplitTask ==
    (Returned \/ Thrown) =>
        \A i \in 1 .. Len(tasks) : \A a \in SplitPoints(i) :
            LET split == SplitOutcome(i, a)
            IN /\ split.error = error
               /\ Returned =>
                      /\ Len(split.result) = Len(result) + 1
                      /\ \A j \in 1 .. i - 1 : SameDates(split.result[j], result[j])
                      /\ \A j \in i + 1 .. Len(result) :
                             SameDates(split.result[j + 1], result[j])
                      /\ split.result[i].FechaInicio = Start(i)
                      /\ split.result[i + 1].FechaFin = End(i)
               /\ Thrown => split.result = << >>

\* a task between two others was split where its first part fills a day:
\* the second part starts on a later day
C27_Witness ==
    /\ Returned
    /\ \E i \in 2 .. Len(tasks) - 1 : \E a \in SplitPoints(i) :
           /\ Effort(i - 1) > 0 /\ Effort(i + 1) > 0
           /\ LET split == SplitOutcome(i, a)
              IN /\ dayOf(split.result[i].FechaFin)
                       < dayOf(split.result[i + 1].FechaInicio)
                 /\ split.result[i + 1].FechaFin = End(i)

\* the holiday lists of the open calendars of the inputs that contain the
\* holidays of the run
MoreHolidays ==
    { h \in (SUBSET HolidayWindow) \cup { c.holidays : c \in DocConfigs } :
          config.holidays \subseteq h }

\* the outcome of calculateSchedule with the holidays h instead
WithHolidays(h) == calculateSchedule(tasks, [config EXCEPT !.holidays = h])

\* C28: for the same task list and two configurations that differ only in
\* the holidays, the first list contained in the second, when both runs
\* succeed every start and end date under the second is on or after the
\* date under the first.
C28_HolidaysDelay ==
    Returned =>
        \A h \in MoreHolidays :
            LET later == WithHolidays(h)
            IN later.error = "none" =>
                   \A i \in 1 .. Len(result) :
                       /\ later.result[i].FechaInicio >= Start(i)
                       /\ later.result[i].FechaFin >= End(i)

\* with one more holiday the first task keeps its dates and a later one
\* is delayed
C28_Witness ==
    /\ Returned
    /\ Len(result) >= 2
    /\ \E h \in MoreHolidays :
           LET later == WithHolidays(h)
           IN /\ h # config.holidays
              /\ later.error = "none"
              /\ SameDates(later.result[1], result[1])
              /\ later.result[Len(result)].FechaInicio > Start(Len(result))
              /\ later.result[Len(result)].FechaFin > End(Len(result))

\* the first k tasks of the list
FirstTasks(k) == SubSeq(tasks, 1, k)

\* C29: when calculateSchedule succeeds on a list it succeeds on the first
\* k tasks alone, for every k, and returns the first k entries of the full
\* schedule; the entries emitted so far are the schedule of the tasks seen
\* so far, whatever follows.
C29_PrefixStability ==
    /\ Returned =>
           \A k \in 0 .. Len(tasks) :
               calculateSchedule(FirstTasks(k), config)
                   = [error |-> "none", result |-> SubSeq(result, 1, k)]
    /\ pc = "map" =>
           calculateSchedule(FirstTasks(Len(mapped)), config)
               = [error |-> "none", result |-> mapped]

\* three tasks were scheduled; the second shares its first day with the
\* first and the third moved the cursor further
C29_Witness ==
    /\ Returned
    /\ Len(result) = 3
    /\ dayOf(Start(2)) = dayOf(End(1))
    /\ Effort(1) > 0
    /\ dayOf(End(3)) > dayOf(End(2))
    /\ calculateSchedule(FirstTasks(2), config).result = SubSeq(result, 1, 2)

\* calculateSchedule has been called by the application
InCall ==
    pc \in {"validateHours", "validateDate", "init", "map", "loop",
            "returned", "thrown"}

\* processedTasks has its value
Processed == pc \in {"appReady", "exportReturned", "exportWriting"}

\* C30: SchedulerApp calls calculateSchedule only with at least one task, a
\* valid start date and a number of hours from 1 to 24; when the call
\* throws all the same, processedTasks is the empty list, never a part of
\* the schedule, and the export handler returns without writing.
C30_AppGuards ==
    /\ InCall =>
           /\ Len(tasks) >= 1
           /\ config.projectStartDate.isDate /\ ~config.projectStartDate.nan
           /\ config.workHoursPerDay >= 1 /\ config.workHoursPerDay <= 24
           /\ Thrown => error = "noWorkingDay"
    /\ Processed =>
           \/ result = << >>
           \/ /\ error = "none"
              /\ Len(result) = Len(tasks)
              /\ [error |-> "none", result |-> result]
                     = calculateSchedule(tasks, config)
    /\ (Processed /\ error # "none") => result = << >>
    /\ pc = "exportWriting" => error = "none" /\ Len(result) >= 1

\* the call threw after the first task was dated: nothing was kept and the
\* export handler returned
C30_Witness ==
    /\ pc = "exportReturned"
    /\ error = "noWorkingDay"
    /\ Len(mapped) >= 1
    /\ result = << >>

====
